---- MODULE Spec2Model ----
(***************************************************************************)
(* Session state machine and chunked-upload pipeline of the photo-mosaic   *)
(* front end: the zustand store (useMosaicStore), the analyze pipeline     *)
(* (useAnalyzer) and the page's handlers (handleGenerate, handlePreview,   *)
(* handleDownload), together with the browser's object-URL registry and    *)
(* the processing service they talk to.                                    *)
(*                                                                         *)
(* JavaScript runs each handler to its next await without interleaving,    *)
(* so one action is one such run: from a user event to the first fetch,    *)
(* or from a response to the next fetch or to the handler's end.           *)
(***************************************************************************)
EXTENDS Integers, Sequences, FiniteSets, TLC

\* ------------------------------------------------------------------ bounds
\* The longest TileSet the user builds.
MaxTiles == 2
\* The most files dropped or set in one user event.
MaxDrop == 2
\* The most object URLs alive at once (leaked ones included).
MaxLive == 4
\* The number of session identifiers makeSessionId can hand out.
MaxSessions == 2
\* The number of handler invocations that can be suspended at once.
MaxTasks == 2
\* The most tiles the service ingests for one session.
MaxSrvTiles == 3
\* The longest TileSet a pipeline run is started on in SpecPipeline.
MaxPipeTiles == 3
\* The most batches of a pipeline run in SpecProgress.
MaxBatches == 200
\* The longest TileSet of SpecThumbs.
MaxManyTiles == 202

\* ------------------------------------------------------- program constants
MiB == 1024 * 1024
CHUNK_BYTES == 5 * 1024 * 1024
THUMB_LIMIT == 200
\* JavaScript's null (a File, a URL and a Blob are never 0 here).
Null == 0

\* The tile files a user can pick: name stands for the image's content (and
\* so for its average colour), size is File.size in bytes.
TileFiles ==
    { [name |-> "a", size |-> 4 * MiB],
      [name |-> "b", size |-> CHUNK_BYTES] }
\* The tile files of SpecPipeline: sizes around the threshold, 0 included.
PipeFiles ==
    { [name |-> "t", size |-> z] :
        z \in {0, 1, 4 * MiB, CHUNK_BYTES - 1, CHUNK_BYTES, CHUNK_BYTES + 1} }
\* A TileSet of n tiles of exactly the threshold's size: n batches of one tile.
UniformTiles(n) == [k \in 1..n |-> [name |-> "t", size |-> CHUNK_BYTES]]
\* A TileSet of n tiles of 1 MiB and more, each of its own size: batches of
\* five tiles.
ManyTiles(n) == [k \in 1..n |-> [name |-> "t", size |-> MiB + k]]
\* The lengths of the TileSets of SpecThumbs: around the thumbnails' limit.
ManySizes == (THUMB_LIMIT - 1)..MaxManyTiles
\* The main images a user can pick.
MainFiles == {1, 2}
\* The bodies of non-success responses.
ErrBodies == {"boom"}
\* The tile sizes the slider offers here.
TileSizes == {40, 60}
\* The blending styles offered here (the opacity slider is shown for "C"), the
\* opacities (in hundredths) and the progress values.
Styles == {"A", "C"}
Opacities == {25, 30}
ProgressValues == {0, 100}

\* ----------------------------------------------------------------- helpers
Range(s) == { s[i] : i \in DOMAIN s }

SeqsUpTo(S, n) == UNION { [1..k -> S] : k \in 0..n }

Min(a, b) == IF a < b THEN a ELSE b

\* The whole array in place of slice(0, n).
SliceAll(s, n) == s

\* Array.prototype.slice(0, n)
Slice(s, n) == SubSeq(s, 1, Min(n, Len(s)))

\* A loop over a sequence is run on the first half of the sequence and then,
\* from the state it has reached, on the second half: the recursion is as
\* deep as the logarithm of the length.  The state reached by the first half
\* is bound as the one element of a set (CHOOSE r \in {F(l) : l \in {...}}),
\* which computes it before the second half starts.
FirstHalf(s) == SubSeq(s, 1, Len(s) \div 2)
SecondHalf(s) == SubSeq(s, Len(s) \div 2 + 1, Len(s))

RECURSIVE Flatten(_)
Flatten(ss) ==
    IF ss = <<>> THEN <<>>
    ELSE IF Len(ss) = 1 THEN ss[1]
    ELSE Flatten(FirstHalf(ss)) \o Flatten(SecondHalf(ss))

RECURSIVE SumSizes(_)
SumSizes(fs) ==
    IF fs = <<>> THEN 0
    ELSE IF Len(fs) = 1 THEN fs[1].size
    ELSE SumSizes(FirstHalf(fs)) + SumSizes(SecondHalf(fs))

\* Math.floor in place of Math.round in line 53.
MathFloor100(k, n) == (100 * k) \div n

\* Math.round(x) for x = 100 * k / n >= 0: floor(x + 1/2).
MathRound100(k, n) == (200 * k + n) \div (2 * n)

\* Optional values that are records in the program (a Blob, PreviewData).
None == <<>>
Some(x) == <<x>>

\* ------------------------------------------------------------------- state
VARIABLES
    store,      \* the zustand store: the fields of MosaicState
    liveUrls,   \* the browser's registry: object URLs created and not revoked
    deadRevoke, \* TRUE once revokeObjectURL was called on a URL that is not live
    error,      \* the page's error state (useState)
    tasks,      \* the suspended handler invocations, with their closures
    net,        \* the requests in flight to the service
    srv,        \* the service: how many tiles it has ingested, per session
    called      \* the store operation called directly last, and the state it was called on

vars == <<store, liveUrls, deadRevoke, error, tasks, net, srv, called>>

Tasks == 1..MaxTasks
Sessions == 1..MaxSessions

\* ------------------------------------------------- the object-URL registry
\* A world is the store together with the registry: the store's operations
\* are functions from worlds to worlds.
World(st, live, dead) == [st |-> st, live |-> live, dead |-> dead]

UrlIds(live) == { u.id : u \in live }

StoreRefs(st) ==
    ({st.mainImagePreviewUrl} \cup Range(st.subImagePreviews) \cup {st.resultUrl})
        \ {Null}

\* URL.createObjectURL: a URL that is no live URL.  (The store's operations
\* overwrite every field whose URL they revoke in the same set() call, so a
\* revoked URL is held nowhere by the time its number is handed out again.)
FreshUrl(w) ==
    LET used == UrlIds(w.live)
    IN  CHOOSE u \in 1..(Cardinality(used) + 1) :
            u \notin used /\ \A v \in 1..(u - 1) : v \in used

createObjectURL(w, kind) ==
    LET u == FreshUrl(w)
    IN  [w |-> [w EXCEPT !.live = @ \cup {[id |-> u, of |-> kind]}], url |-> u]

revokeObjectURL(w, url) ==
    [w EXCEPT !.live = { u \in @ : u.id # url },
              !.dead = @ \/ (url \notin UrlIds(w.live))]

\* for (const url of urls) URL.revokeObjectURL(url), left to right.
RECURSIVE revokeUrls(_, _)
revokeUrls(w, urls) ==
    IF urls = <<>> THEN w
    ELSE IF Len(urls) = 1 THEN revokeObjectURL(w, urls[1])
    ELSE CHOOSE r \in
            { revokeUrls(l, SecondHalf(urls)) :
                l \in {revokeUrls(w, FirstHalf(urls))} } : TRUE

\* files.map((f) => URL.createObjectURL(f)), left to right.
RECURSIVE createPreviews(_, _)
createPreviews(w, files) ==
    IF files = <<>> THEN [w |-> w, urls |-> <<>>]
    ELSE IF Len(files) = 1
    THEN LET c == createObjectURL(w, "thumb")
         IN  [w |-> c.w, urls |-> <<c.url>>]
    ELSE CHOOSE p \in
            { [w |-> r.w, urls |-> l.urls \o r.urls] :
                <<l, r>> \in { <<x, createPreviews(x.w, SecondHalf(files))>> :
                                  x \in {createPreviews(w, FirstHalf(files))} } } : TRUE

\* --------------------------------------------------------------- the store
makeSessionId(prev) == prev + 1

InitStore ==
    [ sessionId           |-> makeSessionId(0),
      mainImageFile       |-> Null,
      mainImagePreviewUrl |-> Null,
      subImageFiles       |-> <<>>,
      subImagePreviews    |-> <<>>,
      palette             |-> <<>>,
      isAnalyzing         |-> FALSE,
      analyzeProgress     |-> 0,
      tileSize            |-> 40,
      style               |-> "A",
      allowRepeats        |-> TRUE,
      overlayOpacity      |-> 25,
      shuffleSources      |-> FALSE,
      a4Output            |-> FALSE,
      previewData         |-> None,
      isPreviewLoading    |-> FALSE,
      isGenerating        |-> FALSE,
      resultUrl           |-> Null,
      resultBlob          |-> None ]

setMainImageFile(w, file) ==
    LET prev == w.st.mainImagePreviewUrl
        w1   == IF prev # Null THEN revokeUrls(w, <<prev>>) ELSE w
    IN  IF file # Null
        THEN LET c == createObjectURL(w1, "main")
             IN  [c.w EXCEPT !.st.mainImageFile = file,
                             !.st.mainImagePreviewUrl = c.url,
                             !.st.previewData = None,
                             !.st.resultUrl = Null,
                             !.st.resultBlob = None]
        ELSE [w1 EXCEPT !.st.mainImageFile = Null,
                        !.st.mainImagePreviewUrl = Null]

\* setSubImageFiles without the revokeUrls of its first line.
setSubImageFilesKeepsUrls(w, files) ==
    LET c == createPreviews(w, Slice(files, THUMB_LIMIT))
    IN  [c.w EXCEPT !.st.subImageFiles = files,
                    !.st.subImagePreviews = c.urls,
                    !.st.palette = <<>>,
                    !.st.previewData = None,
                    !.st.resultUrl = Null]

setSubImageFiles(w, files) ==
    LET w1 == revokeUrls(w, w.st.subImagePreviews)
        c  == createPreviews(w1, Slice(files, THUMB_LIMIT))
    IN  [c.w EXCEPT !.st.subImageFiles = files,
                    !.st.subImagePreviews = c.urls,
                    !.st.palette = <<>>,
                    !.st.previewData = None,
                    !.st.resultUrl = Null]

\* addSubImageFiles with the new files put first: [...newFiles, ...state.subImageFiles].
addSubImageFilesInFront(w, newFiles) ==
    LET w1     == revokeUrls(w, w.st.subImagePreviews)
        merged == newFiles \o w.st.subImageFiles
        c      == createPreviews(w1, Slice(merged, THUMB_LIMIT))
    IN  [c.w EXCEPT !.st.subImageFiles = merged,
                    !.st.subImagePreviews = c.urls,
                    !.st.palette = <<>>,
                    !.st.previewData = None]

addSubImageFiles(w, newFiles) ==
    LET w1     == revokeUrls(w, w.st.subImagePreviews)
        merged == w.st.subImageFiles \o newFiles
        c      == createPreviews(w1, Slice(merged, THUMB_LIMIT))
    IN  [c.w EXCEPT !.st.subImageFiles = merged,
                    !.st.subImagePreviews = c.urls,
                    !.st.palette = <<>>,
                    !.st.previewData = None]

\* clearSubImages without palette: [] and previewData: null.
clearSubImagesTilesOnly(w) ==
    LET w1 == revokeUrls(w, w.st.subImagePreviews)
    IN  [w1 EXCEPT !.st.subImageFiles = <<>>,
                   !.st.subImagePreviews = <<>>]

clearSubImages(w) ==
    LET w1 == revokeUrls(w, w.st.subImagePreviews)
    IN  [w1 EXCEPT !.st.subImageFiles = <<>>,
                   !.st.subImagePreviews = <<>>,
                   !.st.palette = <<>>,
                   !.st.previewData = None]

\* setPalette resetting the progress as well.
setPaletteAndProgress(w, palette) ==
    [w EXCEPT !.st.palette = palette, !.st.analyzeProgress = 0]

setPalette(w, palette) == [w EXCEPT !.st.palette = palette]
setIsAnalyzing(w, v) == [w EXCEPT !.st.isAnalyzing = v]
setAnalyzeProgress(w, v) == [w EXCEPT !.st.analyzeProgress = v]
setTileSize(w, v) == [w EXCEPT !.st.tileSize = v]
setStyle(w, v) == [w EXCEPT !.st.style = v]
setAllowRepeats(w, v) == [w EXCEPT !.st.allowRepeats = v]
setOverlayOpacity(w, v) == [w EXCEPT !.st.overlayOpacity = v]
setShuffleSources(w, v) == [w EXCEPT !.st.shuffleSources = v]
setA4Output(w, v) == [w EXCEPT !.st.a4Output = v]
setPreviewData(w, data) == [w EXCEPT !.st.previewData = data]
setIsPreviewLoading(w, v) == [w EXCEPT !.st.isPreviewLoading = v]
setIsGenerating(w, v) == [w EXCEPT !.st.isGenerating = v]

\* setResult without the revokeUrls([prev]) of its second line.
setResultKeepsUrl(w, url, blob) ==
    [w EXCEPT !.st.resultUrl = url, !.st.resultBlob = blob]

setResult(w, url, blob) ==
    LET prev == w.st.resultUrl
        w1   == IF prev # Null THEN revokeUrls(w, <<prev>>) ELSE w
    IN  [w1 EXCEPT !.st.resultUrl = url, !.st.resultBlob = blob]

reset(w) ==
    LET w1 == IF w.st.mainImagePreviewUrl # Null
              THEN revokeUrls(w, <<w.st.mainImagePreviewUrl>>) ELSE w
        w2 == revokeUrls(w1, w.st.subImagePreviews)
        w3 == IF w.st.resultUrl # Null
              THEN revokeUrls(w2, <<w.st.resultUrl>>) ELSE w2
    IN  [w3 EXCEPT !.st.sessionId = makeSessionId(w.st.sessionId),
                   !.st.mainImageFile = Null,
                   !.st.mainImagePreviewUrl = Null,
                   !.st.subImageFiles = <<>>,
                   !.st.subImagePreviews = <<>>,
                   !.st.palette = <<>>,
                   !.st.isAnalyzing = FALSE,
                   !.st.analyzeProgress = 0,
                   !.st.previewData = None,
                   !.st.resultUrl = Null,
                   !.st.resultBlob = None]

\* The controls never disabled.
busyNever(st) == FALSE

\* The busy predicate of page.tsx and SettingsPanel.tsx.
busy(st) == st.isAnalyzing \/ st.isGenerating \/ st.isPreviewLoading
canGenerate(st) == st.mainImageFile # Null /\ Len(st.subImageFiles) > 0
hasPalette(st) == Len(st.palette) > 0

\* ------------------------------------------------------------ the pipeline
\* useAnalyzer.ts, lines 18-31: the split of the files into batches.
\* Line 25 written with > in place of >=.
closesBatchStrict(size) == size > CHUNK_BYTES

\* Line 25: the batch is closed once its size reaches the threshold.
closesBatch(size) == size >= CHUNK_BYTES

\* Lines 22-30 without the current = [] of line 27: a closed batch's tiles
\* stay in the batch being filled.
RECURSIVE splitLoopKeepsCurrent(_, _, _, _)
splitLoopKeepsCurrent(files, batches, current, size) ==
    IF files = <<>>
    THEN [batches |-> batches, current |-> current, size |-> size]
    ELSE IF Len(files) = 1
    THEN LET cur == Append(current, files[1])
             sz  == size + files[1].size
         IN  IF closesBatch(sz)
             THEN [batches |-> Append(batches, cur), current |-> cur, size |-> 0]
             ELSE [batches |-> batches, current |-> cur, size |-> sz]
    ELSE CHOOSE r \in
            { splitLoopKeepsCurrent(SecondHalf(files), l.batches, l.current, l.size) :
                l \in {splitLoopKeepsCurrent(FirstHalf(files), batches, current, size)} } : TRUE

\* Lines 22-30: the loop over the files.
RECURSIVE splitLoop(_, _, _, _)
splitLoop(files, batches, current, size) ==
    IF files = <<>>
    THEN [batches |-> batches, current |-> current, size |-> size]
    ELSE IF Len(files) = 1
    THEN LET cur == Append(current, files[1])
             sz  == size + files[1].size
         IN  IF closesBatch(sz)
             THEN [batches |-> Append(batches, cur), current |-> <<>>, size |-> 0]
             ELSE [batches |-> batches, current |-> cur, size |-> sz]
    ELSE CHOOSE r \in
            { splitLoop(SecondHalf(files), l.batches, l.current, l.size) :
                l \in {splitLoop(FirstHalf(files), batches, current, size)} } : TRUE

\* Line 31 without its test: the batch being filled is pushed even when empty.
splitBatchesAlwaysPush(files) ==
    LET r == splitLoop(files, <<>>, <<>>, 0)
    IN  Append(r.batches, r.current)

\* Lines 19-31.
splitBatches(files) ==
    LET r == splitLoop(files, <<>>, <<>>, 0)
    IN  IF Len(r.current) # 0 THEN Append(r.batches, r.current) ELSE r.batches

\* json.palette.forEach(p => allPalette.push({...p, index: p.index + offset}))
reindex(allPalette, palette, offset) ==
    allPalette \o [k \in 1..Len(palette) |->
                      [palette[k] EXCEPT !.index = @ + offset]]

\* ------------------------------------------------------------- the service
\* The analyze contract: the tiles of the request are added to those the
\* session has (the service is modelled by how many it holds), and the
\* response is the full palette of the session so far, indexed from 0.  An
\* entry's src names the ingested tile whose average colour (r, g, b) it
\* carries: the k-th tile the session has ingested.
serviceIngest(held, files) == held + Len(files)

servicePalette(held) == [k \in 1..held |-> [index |-> k - 1, src |-> k]]

\* The generate contract: the rendered mosaic of the request's main image.
serviceMosaic(req) == [main |-> req.main_image]

\* The preview contract: the grid computed for the request's main image.
servicePreview(req) == [main |-> req.main_image]

\* ------------------------------------------------------------ the handlers
\* What a handler's closure holds: the store's values at the render in which
\* the handler was created (page.tsx, lines 13-31 and 77-82).
closureOf(st) ==
    [ sessionId      |-> st.sessionId,
      mainImageFile  |-> st.mainImageFile,
      subImageFiles  |-> st.subImageFiles,
      palette        |-> st.palette,
      tileSize       |-> st.tileSize,
      style          |-> st.style,
      allowRepeats   |-> st.allowRepeats,
      overlayOpacity |-> st.overlayOpacity,
      shuffleSources |-> st.shuffleSources,
      a4Output       |-> st.a4Output ]

NoClosure == closureOf([InitStore EXCEPT !.sessionId = 0])

IdleTask ==
    [pc |-> "idle", caller |-> "", cl |-> NoClosure, batches |-> <<>>, i |-> 0,
     allPalette |-> <<>>, globalIndex |-> 0, json |-> <<>>,
     \* history of the invocation's pipeline run: the batches requested, the
     \* progress values written and whether the run returned
     sent |-> <<>>, written |-> <<>>, analyzed |-> FALSE]

\* The session identifier read from the store when the request is built (in
\* place of the closure's).
requestOfCurrentSession(t, endpoint, cl, batch, files) ==
    [ task |-> t, endpoint |-> endpoint, session_id |-> store.sessionId,
      batch |-> batch, files |-> files,
      main_image |-> IF endpoint = "analyze" THEN Null ELSE cl.mainImageFile,
      tile_size |-> IF endpoint = "analyze" THEN 0 ELSE cl.tileSize,
      style |-> IF endpoint = "generate" THEN cl.style ELSE "",
      allow_repeats |-> endpoint = "generate" /\ cl.allowRepeats,
      overlay_opacity |-> IF endpoint = "generate" THEN cl.overlayOpacity ELSE 0,
      shuffle_sources |-> endpoint = "generate" /\ cl.shuffleSources,
      a4_output |-> endpoint = "generate" /\ cl.a4Output ]

request(t, endpoint, cl, batch, files) ==
    [ task |-> t, endpoint |-> endpoint, session_id |-> cl.sessionId,
      batch |-> batch, files |-> files,
      main_image |-> IF endpoint = "analyze" THEN Null ELSE cl.mainImageFile,
      tile_size |-> IF endpoint = "analyze" THEN 0 ELSE cl.tileSize,
      style |-> IF endpoint = "generate" THEN cl.style ELSE "",
      allow_repeats |-> endpoint = "generate" /\ cl.allowRepeats,
      overlay_opacity |-> IF endpoint = "generate" THEN cl.overlayOpacity ELSE 0,
      shuffle_sources |-> endpoint = "generate" /\ cl.shuffleSources,
      a4_output |-> endpoint = "generate" /\ cl.a4Output ]

\* Every batch from i on sent at once, without awaiting each response.
analyzeRequestsAll(t, cl, batches, i) ==
    [k \in 1..(Len(batches) - i) |->
        request(t, "analyze", cl, i + k - 1, batches[i + k])]

\* useAnalyzer.ts, lines 36-42: iteration i of the loop sends batch i and
\* awaits its response before anything else is sent (i counts from 0).
analyzeRequests(t, cl, batches, i) ==
    << request(t, "analyze", cl, i, batches[i + 1]) >>

\* Line 43 as a continue: the loop goes on to the next batch.
requestsAfterFailureContinue(t, task) ==
    IF task.i + 1 < Len(task.batches)
    THEN analyzeRequests(t, task.cl, task.batches, task.i + 1)
    ELSE <<>>

\* useAnalyzer.ts, line 43: the throw leaves the loop, so nothing is sent after
\* a non-success response.
requestsAfterFailure(t, task) == <<>>

\* The palette gathered so far written to the store before the throw.
analyzeThrowCommits(w, task) == setPalette(w, task.allPalette)

\* useAnalyzer.ts, line 43: the throw writes nothing to the store (allPalette
\* is a local of analyze, and setPalette is line 56).
analyzeThrow(w, task) == w

\* Line 53 with i in place of i + 1.
progressBefore(i, n) == MathRound100(i, n)

\* useAnalyzer.ts, line 53.
progressAfter(i, n) == MathRound100(i + 1, n)

\* Line 43 with a message that leaves the response's text out.
analyzeErrorGeneric(body) == <<"Analyze failed">>

\* The error handleGenerate shows for a failed analyze (useAnalyzer.ts, line
\* 43, then page.tsx, lines 71-73) and for a failed generate or preview.
analyzeError(body) == <<"Analyze failed: ", body>>
plainError(body) == <<body>>
NoError == <<>>

W == World(store, liveUrls, deadRevoke)

Commit(w) ==
    /\ store' = w.st
    /\ liveUrls' = w.live
    /\ deadRevoke' = w.dead

\* The registry has room for k more URLs.
CanCreate(live, k) == Cardinality(live) + k <= MaxLive

HasIdle == \E t \in Tasks : tasks[t].pc = "idle"
\* No invocation is suspended: a handler called on its own is called then.
NoneRunning == \A t \in Tasks : tasks[t].pc = "idle"
IdleSlot == CHOOSE t \in Tasks : tasks[t].pc = "idle" /\ \A u \in 1..(t - 1) : tasks[u].pc # "idle"

BatchIds(reqs) == [k \in 1..Len(reqs) |-> reqs[k].batch]

\* No store operation has been called directly.
NoCall == [op |-> "", arg |-> <<>>, st |-> InitStore, live |-> {}]

Init ==
    /\ store = InitStore
    /\ liveUrls = {}
    /\ deadRevoke = FALSE
    /\ error = NoError
    /\ tasks = [t \in Tasks |-> IdleTask]
    /\ net = {}
    /\ srv = [s \in Sessions |-> 0]
    /\ called = NoCall

\* ----------------------------------------------------- store-only actions
\* MainImageUpload's onDrop: never disabled.
DropMainImage ==
    \E f \in MainFiles :
        /\ CanCreate(liveUrls, 1)
        /\ Commit(setMainImageFile(W, f))
        /\ UNCHANGED <<error, tasks, net, srv, called>>

\* setMainImageFile(null): the store's operation, which no component calls.
ClearMainImage ==
    /\ store.mainImageFile # Null
    /\ Commit(setMainImageFile(W, Null))
    /\ UNCHANGED <<error, tasks, net, srv, called>>

\* SubImageUpload's onDrop: the drop zone is disabled while isAnalyzing.
DropSubImages ==
    \E fs \in SeqsUpTo(TileFiles, MaxDrop) \ {<<>>} :
        /\ ~store.isAnalyzing
        /\ Len(store.subImageFiles) + Len(fs) <= MaxTiles
        /\ CanCreate(liveUrls,
                     Min(THUMB_LIMIT, Len(store.subImageFiles) + Len(fs))
                        - Len(store.subImagePreviews))
        /\ Commit(addSubImageFiles(W, fs))
        /\ UNCHANGED <<error, tasks, net, srv, called>>

\* setSubImageFiles(files): the store's operation, which no component calls.
SetSubImages ==
    \E fs \in SeqsUpTo(TileFiles, MaxDrop) :
        /\ CanCreate(liveUrls,
                     Min(THUMB_LIMIT, Len(fs)) - Len(store.subImagePreviews))
        /\ Commit(setSubImageFiles(W, fs))
        /\ UNCHANGED <<error, tasks, net, srv, called>>

\* The "Clear all" button: shown while there are thumbnails, never disabled.
ClickClearAll ==
    /\ Len(store.subImagePreviews) > 0
    /\ Commit(clearSubImages(W))
    /\ UNCHANGED <<error, tasks, net, srv, called>>

\* setResult(null, null): the store's operation with no new Result.
ClearResult ==
    /\ store.resultUrl # Null \/ store.resultBlob # None
    /\ Commit(setResult(W, Null, None))
    /\ UNCHANGED <<error, tasks, net, srv, called>>

\* reset(): the store's operation, which no component calls.
Reset ==
    /\ store.sessionId < MaxSessions
    /\ Commit(reset(W))
    /\ UNCHANGED <<error, tasks, net, srv, called>>

\* The tile-size slider: disabled while busy.
ChangeTileSize ==
    \E v \in TileSizes \ {store.tileSize} :
        /\ ~busy(store)
        /\ Commit(setTileSize(W, v))
        /\ UNCHANGED <<error, tasks, net, srv, called>>

\* page.tsx, lines 107-113: the download button is shown on the result tab
\* while a Result is displayed and the page is not busy.
handleDownload ==
    /\ store.resultBlob # None
    /\ CanCreate(liveUrls, 1)
    /\ Commit(createObjectURL(W, "download").w)
    /\ UNCHANGED <<error, tasks, net, srv, called>>

ClickDownload ==
    /\ store.resultUrl # Null /\ ~busy(store)
    /\ handleDownload

\* --------------------------------------------------------------- handlers
\* page.tsx, lines 50-62: setIsGenerating(true) and the generate request.
startGenerate(t, task, w, others) ==
    /\ Commit(setIsGenerating(w, TRUE))
    /\ tasks' = [tasks EXCEPT ![t] = [task EXCEPT !.pc = "generate"]]
    /\ net' = others \cup {request(t, "generate", task.cl, 0, <<>>)}

\* useAnalyzer.ts, lines 13-42: analyze() up to its first await.  The files and
\* the session identifier are those of the closure.
startAnalyze(t, caller, cl) ==
    LET batches == splitBatches(cl.subImageFiles)
        reqs    == analyzeRequests(t, cl, batches, 0)
    IN  /\ Commit(setAnalyzeProgress(setIsAnalyzing(W, TRUE), 0))
        /\ tasks' = [tasks EXCEPT ![t] =
                        [pc |-> "analyze", caller |-> caller, cl |-> cl,
                         batches |-> batches, i |-> 0,
                         allPalette |-> <<>>, globalIndex |-> 0, json |-> <<>>,
                         sent |-> BatchIds(reqs), written |-> <<0>>,
                         analyzed |-> FALSE]]
        /\ net' = net \cup Range(reqs)

\* Line 14 placed after lines 15-16: the flags are written before the return.
analyzeEarlyReturnAfterFlags(w) == setAnalyzeProgress(setIsAnalyzing(w, TRUE), 0)

\* useAnalyzer.ts, line 14: the return on an empty TileSet comes before any
\* write to the store.
analyzeEarlyReturn(w) == w

\* The slot of an invocation of analyze() that returned at line 14.
ReturnedEarly == [IdleTask EXCEPT !.caller = "analyze"]

\* useAnalyzer.ts, lines 13-42: analyze() called on its own (the hook returns
\* it to any component), up to its first await or its early return.
CallAnalyze ==
    LET cl == closureOf(store)
    IN  /\ NoneRunning
        /\ IF Len(cl.subImageFiles) = 0
           THEN /\ Commit(analyzeEarlyReturn(W))
                /\ tasks' = [tasks EXCEPT ![IdleSlot] = ReturnedEarly]
                /\ UNCHANGED net
           ELSE startAnalyze(IdleSlot, "analyze", cl)
        /\ UNCHANGED <<error, srv, called>>

\* The catch block clearing the Result as well.
generateCatchClearsResult(w) == setResult(w, Null, None)

\* page.tsx, lines 71-73: the catch block calls setError only; it writes
\* nothing to the store.
generateCatch(w) == w

\* Line 46 left out: the palette is taken to be ready.
paletteTakenReady(cl) == FALSE

\* page.tsx, line 46: the pipeline runs first when the closure's palette is
\* empty.
paletteNotReady(cl) == Len(cl.palette) = 0

\* page.tsx, lines 40-62: handleGenerate up to its first await.
handleGenerate(t) ==
    LET cl == closureOf(store)
    IN  /\ cl.mainImageFile # Null /\ Len(cl.subImageFiles) # 0
        /\ error' = NoError
        /\ UNCHANGED <<srv, called>>
        /\ IF paletteNotReady(cl)
           THEN startAnalyze(t, "handleGenerate", cl)
           ELSE startGenerate(t, [IdleTask EXCEPT !.caller = "handleGenerate",
                                                  !.cl = cl], W, net)

\* The "Generate Mosaic" button: disabled={busy || !canGenerate}.
ClickGenerate ==
    /\ HasIdle
    /\ ~busy(store) /\ canGenerate(store)
    /\ handleGenerate(IdleSlot)

\* A success response to the awaited analyze request (useAnalyzer.ts, lines
\* 44-57), and, when it was the last batch, the caller's continuation.
AnalyzeOk ==
    \E r \in net :
        LET t    == r.task
            task == tasks[t]
            n    == Len(task.batches)
            held == serviceIngest(srv[r.session_id], r.files)
            json == servicePalette(held)
            allPalette  == reindex(task.allPalette, json, task.globalIndex)
            globalIndex == task.globalIndex + Len(task.batches[task.i + 1])
            progress    == progressAfter(task.i, n)
            w1   == setAnalyzeProgress(W, progress)
            i    == task.i + 1
            rest == net \ {r}
        IN  /\ r.endpoint = "analyze"
            /\ task.pc = "analyze" /\ task.i = r.batch
            /\ held <= MaxSrvTiles
            /\ srv' = [srv EXCEPT ![r.session_id] = held]
            /\ UNCHANGED <<error, called>>
            /\ IF i < n
               THEN LET reqs == analyzeRequests(t, task.cl, task.batches, i)
                    IN  /\ Commit(w1)
                        /\ tasks' = [tasks EXCEPT ![t] =
                                        [task EXCEPT !.i = i, !.json = json,
                                                     !.allPalette = allPalette,
                                                     !.globalIndex = globalIndex,
                                                     !.sent = @ \o BatchIds(reqs),
                                                     !.written = Append(@, progress)]]
                        /\ net' = rest \cup Range(reqs)
               ELSE LET w2   == setIsAnalyzing(setPalette(w1, allPalette), FALSE)
                        done == [task EXCEPT !.i = i, !.json = json,
                                             !.allPalette = allPalette,
                                             !.globalIndex = globalIndex,
                                             !.written = Append(@, progress),
                                             !.analyzed = TRUE]
                    IN  IF task.caller = "handleGenerate"
                        THEN startGenerate(t, done, w2, rest)
                        ELSE /\ Commit(w2)
                             /\ tasks' = [tasks EXCEPT ![t] = IdleTask]
                             /\ net' = rest

\* A non-success response to the awaited analyze request: line 43 throws, and
\* handleGenerate's catch and finally run (page.tsx, lines 71-76).
AnalyzeFail ==
    \E r \in net, body \in ErrBodies :
        LET t    == r.task
            task == tasks[t]
            reqs == requestsAfterFailure(t, task)
        IN  /\ r.endpoint = "analyze"
            /\ task.pc = "analyze" /\ task.i = r.batch
            /\ net' = (net \ {r}) \cup Range(reqs)
            /\ tasks' = [tasks EXCEPT ![t] = IdleTask]
            /\ IF task.caller = "handleGenerate"
               THEN /\ error' = analyzeError(body)
                    /\ Commit(setIsGenerating(
                                generateCatch(analyzeThrow(W, task)), FALSE))
               ELSE /\ UNCHANGED error
                    /\ Commit(analyzeThrow(W, task))
            /\ UNCHANGED <<srv, called>>

\* page.tsx, lines 67-70 and 74-76.
GenerateOk ==
    \E r \in net :
        LET t    == r.task
            blob == serviceMosaic(r)
            c    == createObjectURL(W, "result")
        IN  /\ r.endpoint = "generate" /\ tasks[t].pc = "generate"
            /\ CanCreate(liveUrls, 1)
            /\ Commit(setIsGenerating(setResult(c.w, c.url, Some(blob)), FALSE))
            /\ tasks' = [tasks EXCEPT ![t] = IdleTask]
            /\ net' = net \ {r}
            /\ UNCHANGED <<error, srv, called>>

\* page.tsx, lines 63-66 and 71-76.
GenerateFail ==
    \E r \in net, body \in ErrBodies :
        LET t == r.task
        IN  /\ r.endpoint = "generate" /\ tasks[t].pc = "generate"
            /\ error' = plainError(body)
            /\ Commit(setIsGenerating(generateCatch(W), FALSE))
            /\ tasks' = [tasks EXCEPT ![t] = IdleTask]
            /\ net' = net \ {r}
            /\ UNCHANGED <<srv, called>>

\* page.tsx, lines 85-94: handlePreview up to its await.
handlePreview(t) ==
    LET cl == closureOf(store)
    IN  /\ cl.mainImageFile # Null /\ Len(cl.palette) # 0
        /\ error' = NoError
        /\ Commit(setIsPreviewLoading(W, TRUE))
        /\ tasks' = [tasks EXCEPT ![t] =
                        [IdleTask EXCEPT !.pc = "preview",
                                         !.caller = "handlePreview", !.cl = cl]]
        /\ net' = net \cup {request(t, "preview", cl, 0, <<>>)}
        /\ UNCHANGED <<srv, called>>

\* The "Preview" button: rendered when hasPalette, disabled={busy || !canGenerate}.
ClickPreview ==
    /\ HasIdle
    /\ hasPalette(store) /\ ~busy(store) /\ canGenerate(store)
    /\ handlePreview(IdleSlot)

\* page.tsx, lines 95-98 and 102-104.
PreviewOk ==
    \E r \in net :
        LET t == r.task
        IN  /\ r.endpoint = "preview" /\ tasks[t].pc = "preview"
            /\ Commit(setIsPreviewLoading(
                        setPreviewData(W, Some(servicePreview(r))), FALSE))
            /\ tasks' = [tasks EXCEPT ![t] = IdleTask]
            /\ net' = net \ {r}
            /\ UNCHANGED <<error, srv, called>>

\* The catch block clearing the Preview as well.
previewCatchClearsPreview(w) == setPreviewData(w, None)

\* page.tsx, lines 99-101: the catch block calls setError only; it writes
\* nothing to the store.
previewCatch(w) == w

\* page.tsx, lines 95 and 99-104.
PreviewFail ==
    \E r \in net, body \in ErrBodies :
        LET t == r.task
        IN  /\ r.endpoint = "preview" /\ tasks[t].pc = "preview"
            /\ error' = plainError(body)
            /\ Commit(setIsPreviewLoading(previewCatch(W), FALSE))
            /\ tasks' = [tasks EXCEPT ![t] = IdleTask]
            /\ net' = net \ {r}
            /\ UNCHANGED <<srv, called>>

\* setError(null) placed before the guard: the early return clears the error.
earlyReturnClearsError(err) == NoError

\* page.tsx, lines 41 and 86: the guard's return comes before setError(null),
\* so the error shown stays.
earlyReturnError(err) == err

\* The slot of an invocation of a handler that returned at its guard.
GenerateReturnedEarly == [IdleTask EXCEPT !.caller = "handleGenerate"]
PreviewReturnedEarly == [IdleTask EXCEPT !.caller = "handlePreview"]

\* handleGenerate invoked whatever the state of its button (page.tsx, lines
\* 40-62), while no invocation is suspended.
InvokeGenerate ==
    /\ NoneRunning
    /\ IF store.mainImageFile = Null \/ Len(store.subImageFiles) = 0
       THEN /\ error' = earlyReturnError(error)
            /\ tasks' = [tasks EXCEPT ![IdleSlot] = GenerateReturnedEarly]
            /\ UNCHANGED <<store, liveUrls, deadRevoke, net, srv, called>>
       ELSE handleGenerate(IdleSlot)

\* handlePreview invoked whatever the state of its button (page.tsx, lines
\* 85-94), while no invocation is suspended.
InvokePreview ==
    /\ NoneRunning
    /\ IF store.mainImageFile = Null \/ Len(store.palette) = 0
       THEN /\ error' = earlyReturnError(error)
            /\ tasks' = [tasks EXCEPT ![IdleSlot] = PreviewReturnedEarly]
            /\ UNCHANGED <<store, liveUrls, deadRevoke, net, srv, called>>
       ELSE handlePreview(IdleSlot)

\* The program as it runs: the user's events on the page's components and the
\* service's responses.
Next ==
    \/ DropMainImage
    \/ DropSubImages
    \/ ClickClearAll
    \/ ClickDownload
    \/ ClickGenerate
    \/ AnalyzeOk
    \/ AnalyzeFail
    \/ GenerateOk
    \/ GenerateFail
    \/ ClickPreview
    \/ PreviewOk
    \/ PreviewFail

Spec == Init /\ [][Next]_vars

\* Every request in flight gets a response, a success or a failure.
Respond ==
    \/ AnalyzeOk
    \/ AnalyzeFail
    \/ GenerateOk
    \/ GenerateFail
    \/ PreviewOk
    \/ PreviewFail

SpecLive == Init /\ [][Next]_vars /\ WF_vars(Respond)

\* Pipeline runs on any TileSet: the state after a main image and up to
\* MaxPipeTiles tiles of any of the sizes of PipeFiles were dropped, then the
\* Generate button and the service's responses.
InitPipeline ==
    \E fs \in SeqsUpTo(PipeFiles, MaxPipeTiles) :
        LET w == addSubImageFiles(
                    setMainImageFile(World(InitStore, {}, FALSE), 1), fs)
        IN  /\ store = w.st
            /\ liveUrls = w.live
            /\ deadRevoke = w.dead
            /\ error = NoError
            /\ tasks = [t \in Tasks |-> IdleTask]
            /\ net = {}
            /\ srv = [s \in Sessions |-> 0]
            /\ called = NoCall

NextPipeline ==
    \/ ClickGenerate
    \/ AnalyzeOk
    \/ AnalyzeFail
    \/ GenerateOk
    \/ GenerateFail

SpecPipeline == InitPipeline /\ [][NextPipeline]_vars

\* The same, every request in flight getting its response.
SpecPipelineLive == InitPipeline /\ [][NextPipeline]_vars /\ WF_vars(Respond)

\* The progress written by line 53 of useAnalyzer.ts, on any run of up to
\* MaxBatches batches.  The inputs are analyze's locals i and batches, in a
\* run on n tiles of the threshold's size (n batches) whose iteration i has
\* got its success response; the store shows the progress written by the
\* iteration before.  The run's palette is not read by line 53 and is left
\* out; the tiles are those of the closure.
InitProgress ==
    \E n \in 1..MaxBatches :
        \E cl \in {[NoClosure EXCEPT !.sessionId = 1,
                                     !.subImageFiles = UniformTiles(n)]} :
            \E batches \in {splitBatches(cl.subImageFiles)}, i \in 0..(n - 1) :
                LET shown == IF i = 0 THEN 0 ELSE progressAfter(i - 1, n)
                IN  /\ store = [InitStore EXCEPT !.isAnalyzing = TRUE,
                                                 !.analyzeProgress = shown]
                    /\ liveUrls = {}
                    /\ deadRevoke = FALSE
                    /\ error = NoError
                    /\ tasks = [t \in Tasks |->
                                  IF t = 1
                                  THEN [IdleTask EXCEPT !.pc = "progress",
                                            !.cl = cl, !.batches = batches,
                                            !.i = i, !.written = <<shown>>]
                                  ELSE IdleTask]
                    /\ net = {}
                    /\ srv = [s \in Sessions |-> 0]
                    /\ called = NoCall

\* useAnalyzer.ts, line 53, in the iteration i of the loop.
WriteProgress ==
    \E t \in Tasks :
        LET task == tasks[t]
            progress == progressAfter(task.i, Len(task.batches))
        IN  /\ task.pc = "progress"
            /\ Commit(setAnalyzeProgress(W, progress))
            /\ tasks' = [tasks EXCEPT ![t] =
                            [task EXCEPT !.pc = "progressed", !.i = @ + 1,
                                         !.written = Append(@, progress)]]
            /\ UNCHANGED <<error, net, srv, called>>

\* Pipeline runs on the TileSets of SpecPipeline, and line 53 on the runs of up
\* to MaxBatches batches.
NextProgress ==
    \/ NextPipeline
    \/ WriteProgress

SpecProgress == (InitPipeline \/ InitProgress) /\ [][NextProgress]_vars

\* The same, with the store's operations that no component calls invoked
\* directly as well.
NextApi ==
    \/ Next
    \/ ClearMainImage
    \/ SetSubImages
    \/ ClearResult
    \/ Reset

SpecApi == Init /\ [][NextApi]_vars

\* page.tsx, lines 67-69, as the store sees them: a mosaic of the main image
\* gets its URL and is made the Result.
StoreResult ==
    LET c == createObjectURL(W, "result")
    IN  /\ store.mainImageFile # Null
        /\ CanCreate(liveUrls, 1)
        /\ Commit(setResult(c.w, c.url, Some([main |-> store.mainImageFile])))
        /\ UNCHANGED <<error, tasks, net, srv, called>>

\* page.tsx, line 96, as the store sees it: a preview of the main image is
\* made the Preview.
StorePreview ==
    /\ store.mainImageFile # Null
    /\ store.previewData # Some([main |-> store.mainImageFile])
    /\ Commit(setPreviewData(W, Some([main |-> store.mainImageFile])))
    /\ UNCHANGED <<error, tasks, net, srv, called>>

\* The store on its own: its operations called in any order.
NextStore ==
    \/ DropMainImage
    \/ ClearMainImage
    \/ DropSubImages
    \/ SetSubImages
    \/ ClickClearAll
    \/ StoreResult
    \/ StorePreview
    \/ ClearResult
    \/ Reset

SpecStore == Init /\ [][NextStore]_vars

\* The handlers invoked whatever the state of their buttons.
NextHandlers ==
    \/ DropMainImage
    \/ DropSubImages
    \/ ClickClearAll
    \/ InvokeGenerate
    \/ InvokePreview
    \/ AnalyzeOk
    \/ AnalyzeFail
    \/ GenerateOk
    \/ GenerateFail
    \/ PreviewOk
    \/ PreviewFail

SpecHandlers == Init /\ [][NextHandlers]_vars

\* analyze() called on its own, on the TileSets the user builds.
NextAnalyze ==
    \/ DropSubImages
    \/ ClickClearAll
    \/ CallAnalyze
    \/ AnalyzeOk
    \/ AnalyzeFail

SpecAnalyze == Init /\ [][NextAnalyze]_vars

\* ------------------------------------------------ the store called directly
\* A call of the store's operation op with the arguments arg, on the store and
\* the registry as they are; w is the world the operation gives.
Call(op, arg, w) ==
    /\ Commit(w)
    /\ called' = [op |-> op, arg |-> arg, st |-> store, live |-> liveUrls]
    /\ UNCHANGED <<error, tasks, net, srv>>

CallSetMainImageFile ==
    \E f \in MainFiles \cup {Null} :
        /\ f # Null => CanCreate(liveUrls, 1)
        /\ Call("setMainImageFile", <<f>>, setMainImageFile(W, f))

CallSetSubImageFiles ==
    \E fs \in SeqsUpTo(TileFiles, MaxDrop) :
        /\ CanCreate(liveUrls,
                     Min(THUMB_LIMIT, Len(fs)) - Len(store.subImagePreviews))
        /\ Call("setSubImageFiles", <<fs>>, setSubImageFiles(W, fs))

CallAddSubImageFiles ==
    \E fs \in SeqsUpTo(TileFiles, MaxDrop) :
        /\ Len(store.subImageFiles) + Len(fs) <= MaxTiles
        /\ CanCreate(liveUrls,
                     Min(THUMB_LIMIT, Len(store.subImageFiles) + Len(fs))
                        - Len(store.subImagePreviews))
        /\ Call("addSubImageFiles", <<fs>>, addSubImageFiles(W, fs))

CallClearSubImages ==
    Call("clearSubImages", <<>>, clearSubImages(W))

\* setPalette(allPalette) with the palette of the TileSet, as useAnalyzer.ts
\* calls it (line 56), and setPalette([]).
CallSetPalette ==
    \E p \in {servicePalette(Len(store.subImageFiles)), <<>>} :
        Call("setPalette", <<p>>, setPalette(W, p))

\* setPreviewData(data) with the preview of the main image, as page.tsx calls
\* it (line 96), and setPreviewData(null).
CallSetPreviewData ==
    \E data \in {Some(servicePreview([main_image |-> store.mainImageFile])), None} :
        /\ data # None => store.mainImageFile # Null
        /\ Call("setPreviewData", <<data>>, setPreviewData(W, data))

\* setResult(url, blob) with the mosaic of the main image and its URL, as
\* page.tsx calls it (lines 67-69), and setResult(null, null).
CallSetResult ==
    \/ LET c    == createObjectURL(W, "result")
           blob == Some(serviceMosaic([main_image |-> store.mainImageFile]))
       IN  /\ store.mainImageFile # Null
           /\ CanCreate(liveUrls, 1)
           /\ Call("setResult", <<c.url, blob>>, setResult(c.w, c.url, blob))
    \/ Call("setResult", <<Null, None>>, setResult(W, Null, None))

CallSetTileSize ==
    \E v \in TileSizes :
        Call("setTileSize", <<v>>, setTileSize(W, v))

\* The store's operations on the session's entities called in any order, each
\* call recorded.
NextCalls ==
    \/ CallSetMainImageFile
    \/ CallSetSubImageFiles
    \/ CallAddSubImageFiles
    \/ CallClearSubImages
    \/ CallSetPalette
    \/ CallSetPreviewData
    \/ CallSetResult

SpecCalls == Init /\ [][NextCalls]_vars

\* ------------------------------------------------- more tiles than thumbnails
\* The state after a main image and n tiles were dropped, n around the limit
\* of the thumbnails.
InitThumbs ==
    \E n \in ManySizes :
        LET w == addSubImageFiles(
                    setMainImageFile(World(InitStore, {}, FALSE), 1), ManyTiles(n))
        IN  /\ store = w.st
            /\ liveUrls = w.live
            /\ deadRevoke = w.dead
            /\ error = NoError
            /\ tasks = [t \in Tasks |-> IdleTask]
            /\ net = {}
            /\ srv = [s \in Sessions |-> 0]
            /\ called = NoCall

\* setSubImageFiles(files) with the TileSet the store has or with another long
\* one.
SetManyTiles ==
    \E fs \in {store.subImageFiles} \cup { ManyTiles(n) : n \in ManySizes } :
        Call("setSubImageFiles", <<fs>>, setSubImageFiles(W, fs))

\* addSubImageFiles(newFiles) with one more tile.
AddOneTile ==
    LET n == Len(store.subImageFiles)
    IN  /\ n < MaxManyTiles
        /\ Call("addSubImageFiles", << <<ManyTiles(n + 1)[n + 1]>> >>,
                addSubImageFiles(W, <<ManyTiles(n + 1)[n + 1]>>))

NextThumbs ==
    \/ SetManyTiles
    \/ AddOneTile
    \/ CallSetPalette
    \/ ClickGenerate
    \/ AnalyzeFail

SpecThumbs == InitThumbs /\ [][NextThumbs]_vars

\* ---------------------------------------------------------------- sessions
\* The state after reset() was called any number of times on the initial
\* store (each call leaves the initial store with the next session
\* identifier) and a main image and tiles were dropped.
InitSession ==
    \E sid \in Sessions, fs \in SeqsUpTo(TileFiles, MaxTiles) :
        LET w == addSubImageFiles(
                    setMainImageFile(
                        World([InitStore EXCEPT !.sessionId = sid], {}, FALSE), 1),
                    fs)
        IN  /\ store = w.st
            /\ liveUrls = w.live
            /\ deadRevoke = w.dead
            /\ error = NoError
            /\ tasks = [t \in Tasks |-> IdleTask]
            /\ net = {}
            /\ srv = [s \in Sessions |-> 0]
            /\ called = NoCall

\* The page's buttons and the service's responses, the tile-size slider, and
\* reset() called at any time.
NextSession ==
    \/ DropMainImage
    \/ ClickClearAll
    \/ ChangeTileSize
    \/ ClickGenerate
    \/ AnalyzeOk
    \/ AnalyzeFail
    \/ GenerateOk
    \/ GenerateFail
    \/ ClickPreview
    \/ PreviewOk
    \/ PreviewFail
    \/ Reset

SpecSession == InitSession /\ [][NextSession]_vars

\* -------------------------------------------------------------- the setters
CallSetAnalyzeProgress ==
    \E v \in ProgressValues :
        Call("setAnalyzeProgress", <<v>>, setAnalyzeProgress(W, v))

CallSetStyle ==
    \E v \in Styles : Call("setStyle", <<v>>, setStyle(W, v))

CallSetAllowRepeats ==
    \E v \in BOOLEAN : Call("setAllowRepeats", <<v>>, setAllowRepeats(W, v))

CallSetOverlayOpacity ==
    \E v \in Opacities :
        Call("setOverlayOpacity", <<v>>, setOverlayOpacity(W, v))

CallSetShuffleSources ==
    \E v \in BOOLEAN : Call("setShuffleSources", <<v>>, setShuffleSources(W, v))

CallSetA4Output ==
    \E v \in BOOLEAN : Call("setA4Output", <<v>>, setA4Output(W, v))

\* setPalette, setAnalyzeProgress and the setters of the Settings called in
\* any order on a store with a main image and tiles, each call recorded.
NextSetters ==
    \/ CallSetPalette
    \/ CallSetAnalyzeProgress
    \/ CallSetTileSize
    \/ CallSetStyle
    \/ CallSetAllowRepeats
    \/ CallSetOverlayOpacity
    \/ CallSetShuffleSources
    \/ CallSetA4Output

SpecSetters == InitSession /\ [][NextSetters]_vars

\* ================================================================== claims
Last(q) == q[Len(q)]

\* The task's invocation has started a pipeline run.
RanPipeline(t) == tasks[t].sent # <<>>

\* The step in which task t's awaited analyze request gets a non-success
\* response: the run ends and the service has ingested nothing.
FailStep(t) ==
    /\ tasks[t].pc = "analyze"
    /\ tasks'[t].pc = "idle"
    /\ srv' = srv

\* The URLs the store's entities own, among the live ones.
OwnedLive(kind) == { u.id : u \in { v \in liveUrls : v.of = kind } }

\* C1: the live display handles of the store's entities (main image,
\* thumbnails, Result) are exactly the handles the store references: none is
\* live without being referenced, and each of MainImage and Result has one
\* live handle if it is set and none otherwise.
C1_LiveHandlesAreStoreHandles ==
    /\ OwnedLive("main") \cup OwnedLive("thumb") \cup OwnedLive("result")
            = StoreRefs(store)
    /\ Cardinality(OwnedLive("main"))
            = (IF store.mainImagePreviewUrl # Null THEN 1 ELSE 0)
    /\ Cardinality(OwnedLive("result"))
            = (IF store.resultUrl # Null THEN 1 ELSE 0)

\* C2: every handle the program creates (the download action's included) is
\* released exactly once, when its owner is replaced: no release hits a
\* handle that is not live, no released handle is still referenced by the
\* store, and no handle stays live once nothing references it.
C2_EveryHandleReleasedOnce ==
    /\ ~deadRevoke
    /\ StoreRefs(store) \subseteq UrlIds(liveUrls)
    /\ \A u \in liveUrls : u.id \in StoreRefs(store)

\* C3: once a pipeline run has succeeded, the palette it wrote to the store
\* has one entry per tile of the TileSet it ran on, and entry i has index i.
C3_PaletteAlignedAfterRun ==
    \A t \in Tasks :
        (tasks[t].analyzed /\ store.palette = tasks[t].allPalette) =>
            /\ Len(store.palette) = Len(tasks[t].cl.subImageFiles)
            /\ \A k \in 1..Len(store.palette) : store.palette[k].index = k - 1

\* C4: after a batch has succeeded, the palette the pipeline holds is the
\* palette of the latest response (a replacement, not a merge).
C4_ResponseReplacesPalette ==
    \A t \in Tasks :
        (RanPipeline(t) /\ tasks[t].i >= 1) =>
            tasks[t].allPalette = tasks[t].json

\* C5: the batches of a pipeline run, concatenated in order, are the TileSet
\* the run was started on.
C5_BatchesPartition ==
    \A t \in Tasks :
        RanPipeline(t) => Flatten(tasks[t].batches) = tasks[t].cl.subImageFiles

C5_Witness ==
    \E t \in Tasks :
        /\ RanPipeline(t)
        /\ Len(tasks[t].batches) = 2
        /\ Len(tasks[t].batches[1]) = 2
        /\ Len(tasks[t].batches[2]) = 1

\* C6 as stated: no batch is larger than the threshold, unless it is a single
\* tile that is itself larger.
C6_Original ==
    \A t \in Tasks :
        RanPipeline(t) =>
            \A k \in 1..Len(tasks[t].batches) :
                LET b == tasks[t].batches[k]
                IN  \/ SumSizes(b) <= CHUNK_BYTES
                    \/ Len(b) = 1 /\ b[1].size > CHUNK_BYTES

\* C6, amended: a batch is larger than the threshold only through its last
\* tile: without its last tile every batch is below the threshold, and every
\* batch but the last one reaches it.
C6_BatchBelowThresholdBeforeLastTile ==
    \A t \in Tasks :
        RanPipeline(t) =>
            \A k \in 1..Len(tasks[t].batches) :
                LET b == tasks[t].batches[k]
                IN  /\ Len(b) >= 1
                    /\ SumSizes(b) - Last(b).size < CHUNK_BYTES
                    /\ k < Len(tasks[t].batches) => SumSizes(b) >= CHUNK_BYTES

C6_Witness ==
    \E t \in Tasks :
        /\ RanPipeline(t)
        /\ \E k \in 1..Len(tasks[t].batches) :
              /\ Len(tasks[t].batches[k]) >= 2
              /\ SumSizes(tasks[t].batches[k]) > CHUNK_BYTES

TwoTilesOf4MiB(t) ==
    /\ Len(tasks[t].cl.subImageFiles) = 2
    /\ \A k \in 1..2 : tasks[t].cl.subImageFiles[k].size = 4 * MiB

\* C7 as stated: two tiles of 4 MiB give the batches [tile 0] and [tile 1],
\* two requests, and the progress values 50 then 100.
C7_Original ==
    \A t \in Tasks :
        (tasks[t].analyzed /\ TwoTilesOf4MiB(t)) =>
            /\ tasks[t].batches = << <<tasks[t].cl.subImageFiles[1]>>,
                                     <<tasks[t].cl.subImageFiles[2]>> >>
            /\ tasks[t].sent = <<0, 1>>
            /\ Tail(tasks[t].written) = <<50, 100>>

\* C7, amended: two tiles of 4 MiB give one batch [tile 0, tile 1] (the size
\* reaches the threshold with the second tile), one request, and the progress
\* values 0 (at the start) then 100.
C7_TwoTilesOneBatch ==
    \A t \in Tasks :
        (tasks[t].analyzed /\ TwoTilesOf4MiB(t)) =>
            /\ tasks[t].batches = << tasks[t].cl.subImageFiles >>
            /\ tasks[t].sent = <<0>>
            /\ tasks[t].written = <<0, 100>>

C7_Witness == \E t \in Tasks : tasks[t].analyzed /\ TwoTilesOf4MiB(t)

\* C8: at any time a run has at most one analyze request in flight, the one
\* for the batch it awaits; the batches were requested in the order 0, 1, 2,
\* ... and each but the first after the one before it had succeeded.
C8_RequestsSequential ==
    \A t \in Tasks :
        LET reqs == { r \in net : r.task = t /\ r.endpoint = "analyze" }
        IN  /\ Cardinality(reqs) <= 1
            /\ \A r \in reqs : tasks[t].pc = "analyze" /\ r.batch = tasks[t].i
            /\ tasks[t].pc = "analyze" => reqs # {}
            /\ tasks[t].sent = [k \in 1..Len(tasks[t].sent) |-> k - 1]
            /\ Len(tasks[t].sent) <= Len(tasks[t].written)
            /\ RanPipeline(t) =>
                  Len(tasks[t].sent) = (IF tasks[t].analyzed THEN tasks[t].i
                                        ELSE tasks[t].i + 1)

C8_Witness ==
    \E t \in Tasks, r \in net :
        /\ tasks[t].pc = "analyze" /\ tasks[t].i = 1
        /\ r.task = t /\ r.endpoint = "analyze" /\ r.batch = 1

\* C9: the step in which a batch's request fails ends the run: no request of
\* the run is in flight or sent afterwards, progress is not advanced, and the
\* failure reaches the caller, which shows it.
C9_AbortOnFailure ==
    [][\A t \in Tasks :
          FailStep(t) =>
              /\ \A r \in net' : r.task # t
              /\ store'.analyzeProgress = store.analyzeProgress
              /\ \E body \in ErrBodies : error' = analyzeError(body)
              /\ tasks'[t] = IdleTask]_vars

\* The first of two batches failed: the second was never sent.
C9_Witness ==
    /\ \E body \in ErrBodies : error = analyzeError(body)
    /\ store.isAnalyzing /\ store.analyzeProgress = 0
    /\ Len(splitBatches(store.subImageFiles)) = 2
    /\ net = {}

IsRounded(p, k, n) == 2 * p * n - n <= 200 * k /\ 200 * k < 2 * p * n + n

\* What C11 says of a pipeline run but for when progress reads 100: progress
\* is 0 at the start and round(100 * k / n) after the k-th batch, never
\* decreases, stays in 0..100, is what the store shows, and a TileSet below
\* the threshold gives one batch, one request and progress 100.
ProgressFollowsBatches(t) ==
    LET wr == tasks[t].written
        n  == Len(tasks[t].batches)
    IN  /\ wr[1] = 0
        /\ Len(wr) = tasks[t].i + 1
        /\ \A k \in 1..(Len(wr) - 1) :
              /\ IsRounded(wr[k + 1], k, n)
              /\ wr[k] <= wr[k + 1]
        /\ \A k \in 1..Len(wr) : wr[k] \in 0..100
        /\ store.analyzeProgress = Last(wr)
        /\ tasks[t].analyzed <=> tasks[t].i = n
        /\ SumSizes(tasks[t].cl.subImageFiles) < CHUNK_BYTES =>
              /\ n = 1
              /\ tasks[t].analyzed =>
                    tasks[t].sent = <<0>> /\ wr = <<0, 100>>

\* The same of one write of line 53: written holds the progress shown before
\* and the progress written after i of n batches.
ProgressWritten(t) ==
    LET wr == tasks[t].written
        n  == Len(tasks[t].batches)
    IN  /\ IsRounded(wr[2], tasks[t].i, n)
        /\ wr[1] <= wr[2]
        /\ wr[2] \in 0..100
        /\ store.analyzeProgress = wr[2]
        /\ tasks[t].i = 1 => wr[1] = 0

\* The batches that have succeeded in the run of task t, and whether all have.
Succeeded(t) == tasks[t].i
AllSucceeded(t) == tasks[t].i = Len(tasks[t].batches)

EarlyReturnStep(t) == tasks[t] # ReturnedEarly /\ tasks'[t] = ReturnedEarly

\* C12: analyze() on an empty TileSet is a no-op: the step sends no request
\* and changes no field of the store (nor the registry, nor the error shown),
\* and analyze() returns at once only when the TileSet is empty.
C12_EmptyAnalyzeNoOp ==
    [][\A t \in Tasks :
          EarlyReturnStep(t) =>
              /\ Len(store.subImageFiles) = 0
              /\ store' = store
              /\ net' = net
              /\ liveUrls' = liveUrls
              /\ error' = error
              /\ srv' = srv]_vars

\* analyze() has returned at once on an empty TileSet, with isAnalyzing left
\* as an earlier, failed run had it.
C12_Witness ==
    \E t \in Tasks :
        /\ tasks[t] = ReturnedEarly
        /\ Len(store.subImageFiles) = 0
        /\ store.isAnalyzing /\ net = {}

\* The step sends the generate request of slot t's invocation.
SendsGenerate(t) ==
    \E r \in net' \ net : r.endpoint = "generate" /\ r.task = t

\* C13: an invocation of generate that started with an empty palette sends
\* its generate request only in the step in which the awaited response to its
\* last batch arrives as a success, every batch having been requested in
\* order; and the step in which a batch fails ends the invocation with no
\* generate request sent.
C13_GenerateAfterPipeline ==
    [][\A t \in Tasks :
          /\ (SendsGenerate(t) /\ tasks'[t].cl.palette = <<>>) =>
                /\ tasks[t].pc = "analyze"
                /\ tasks[t].i = Len(tasks[t].batches) - 1
                /\ \E q \in net \ net' :
                      /\ q.endpoint = "analyze" /\ q.task = t
                      /\ q.batch = tasks[t].i
                /\ tasks'[t].analyzed
                /\ tasks'[t].sent = [k \in 1..Len(tasks[t].batches) |-> k - 1]
                /\ tasks'[t].cl.mainImageFile # Null
                /\ Len(tasks'[t].cl.subImageFiles) # 0
          /\ FailStep(t) =>
                /\ ~SendsGenerate(t)
                /\ \A r \in net' : r.task # t
                /\ tasks'[t] = IdleTask]_vars

\* The generate request of an invocation that ran a pipeline of two batches
\* is in flight.
C13_Witness ==
    \E t \in Tasks, r \in net :
        /\ r.endpoint = "generate" /\ r.task = t
        /\ tasks[t].cl.palette = <<>>
        /\ tasks[t].analyzed /\ Len(tasks[t].batches) = 2

\* The Result and its handle are as they were before the step.
ResultUntouched ==
    /\ store'.resultUrl = store.resultUrl
    /\ store'.resultBlob = store.resultBlob
    /\ liveUrls' = liveUrls

\* The step replaces the Result by the mosaic of the generate request r: a
\* new live handle, the one before it released.
ResultReplacedBy(r) ==
    /\ store'.resultUrl # Null
    /\ store'.resultUrl \notin UrlIds(liveUrls)
    /\ [id |-> store'.resultUrl, of |-> "result"] \in liveUrls'
    /\ store.resultUrl # Null => store.resultUrl \notin UrlIds(liveUrls')
    /\ store'.resultBlob = Some(serviceMosaic(r))

\* C14: the step that ends an invocation of generate either replaces the
\* Result (success) and shows no error, or leaves the Result and its handle
\* as they were and shows the error (a failed batch or a failed generate
\* request); the invocation's earlier steps leave the Result as it was.
C14_FailureKeepsResult ==
    [][\A t \in Tasks :
          /\ (tasks[t].pc = "generate" /\ tasks'[t] = IdleTask) =>
                \E r \in net \ net' :
                    /\ r.endpoint = "generate" /\ r.task = t
                    /\ \/ ResultReplacedBy(r) /\ error' = NoError
                       \/ /\ ResultUntouched
                          /\ \E body \in ErrBodies : error' = plainError(body)
          /\ (FailStep(t) /\ tasks[t].caller = "handleGenerate") =>
                /\ ResultUntouched
                /\ \E body \in ErrBodies : error' = analyzeError(body)
          /\ (tasks'[t] # tasks[t] /\ tasks'[t].caller = "handleGenerate") =>
                ResultUntouched]_vars

\* A generate request has failed and the Result of an earlier invocation is
\* still shown.
C14_Witness ==
    /\ \E body \in ErrBodies : error = plainError(body)
    /\ store.resultUrl # Null /\ store.resultBlob # None
    /\ [id |-> store.resultUrl, of |-> "result"] \in liveUrls
    /\ ~store.isGenerating
    /\ \A t \in Tasks : tasks[t].pc = "idle"

\* C15: the step that ends an invocation of preview either replaces the
\* Preview by the response (success) and shows no error, or leaves the
\* Preview as it was and shows the error (failure); in both cases the Result
\* and its handle are as they were and isPreviewLoading is false afterwards.
C15_FailedPreviewKeepsState ==
    [][\A t \in Tasks :
          (tasks[t].pc = "preview" /\ tasks'[t] = IdleTask) =>
              \E r \in net \ net' :
                  /\ r.endpoint = "preview" /\ r.task = t
                  /\ ResultUntouched
                  /\ ~store'.isPreviewLoading
                  /\ \/ /\ store'.previewData = Some(servicePreview(r))
                        /\ error' = NoError
                     \/ /\ store'.previewData = store.previewData
                        /\ \E body \in ErrBodies : error' = plainError(body)]_vars

\* A preview request has failed: the Preview of an earlier invocation and the
\* Result are still there.
C15_Witness ==
    /\ \E body \in ErrBodies : error = plainError(body)
    /\ store.previewData # None
    /\ store.resultUrl # Null /\ store.resultBlob # None
    /\ ~store.isPreviewLoading /\ ~store.isGenerating
    /\ \A t \in Tasks : tasks[t].pc = "idle"

\* The step is a no-op on the store, the registry, the requests in flight, the
\* service and the error shown.
NoEffect ==
    /\ store' = store
    /\ liveUrls' = liveUrls
    /\ deadRevoke' = deadRevoke
    /\ net' = net
    /\ srv' = srv
    /\ error' = error

\* C16: an invocation of generate with no main image or no tiles, and one of
\* preview with no main image or no palette, returns at once with no effect;
\* and an invocation that goes on (sets a busy flag, sends a request) had its
\* precondition.
C16_PreconditionNoOp ==
    [][\A t \in Tasks :
          /\ (tasks[t] # GenerateReturnedEarly
                /\ tasks'[t] = GenerateReturnedEarly) =>
                /\ store.mainImageFile = Null \/ Len(store.subImageFiles) = 0
                /\ NoEffect
          /\ (tasks[t] # PreviewReturnedEarly
                /\ tasks'[t] = PreviewReturnedEarly) =>
                /\ store.mainImageFile = Null \/ Len(store.palette) = 0
                /\ NoEffect
          /\ (tasks[t].pc = "idle" /\ tasks'[t].pc # "idle"
                /\ tasks'[t].caller = "handleGenerate") =>
                store.mainImageFile # Null /\ Len(store.subImageFiles) # 0
          /\ (tasks[t].pc = "idle" /\ tasks'[t].pc # "idle"
                /\ tasks'[t].caller = "handlePreview") =>
                store.mainImageFile # Null /\ Len(store.palette) # 0]_vars

\* generate, invoked with a main image and no tiles while an error is shown,
\* has returned at once: the error is still shown.
C16_Witness ==
    \E t \in Tasks :
        /\ tasks[t] = GenerateReturnedEarly
        /\ store.mainImageFile # Null /\ Len(store.subImageFiles) = 0
        /\ error # NoError
        /\ net = {}

\* C17: with preview and generate started by their buttons only, at most one
\* of the three flags is true, at most one request is in flight and at most
\* one invocation is suspended.
C17_OneOperationAtATime ==
    /\ ~(store.isAnalyzing /\ store.isGenerating)
    /\ ~(store.isAnalyzing /\ store.isPreviewLoading)
    /\ ~(store.isGenerating /\ store.isPreviewLoading)
    /\ Cardinality(net) <= 1
    /\ Cardinality({ t \in Tasks : tasks[t].pc # "idle" }) <= 1

\* A generate request is in flight, with a slot free for another invocation.
C17_Witness ==
    /\ store.isGenerating /\ ~store.isAnalyzing /\ ~store.isPreviewLoading
    /\ \E r \in net : r.endpoint = "generate"
    /\ HasIdle

\* C18: while busy, no step replaces the main image, changes the TileSet,
\* changes a setting or starts an invocation of preview or generate.
C18_BusyGatesUiActions ==
    [][busy(store) =>
          /\ store'.mainImageFile = store.mainImageFile
          /\ store'.subImageFiles = store.subImageFiles
          /\ closureOf(store').tileSize = store.tileSize
          /\ closureOf(store').style = store.style
          /\ closureOf(store').allowRepeats = store.allowRepeats
          /\ closureOf(store').overlayOpacity = store.overlayOpacity
          /\ closureOf(store').shuffleSources = store.shuffleSources
          /\ closureOf(store').a4Output = store.a4Output
          /\ \A t \in Tasks : tasks[t].pc = "idle" => tasks'[t].pc = "idle"]_vars

\* C19: whenever one of the three flags is true, a state follows in which
\* none is, every request in flight getting its response.
C19_BusyEventuallyClears == busy(store) ~> ~busy(store)

\* The step is a call of setMainImageFile: the main image or its handle
\* changes and the session stays.
SetMainImageStep ==
    /\ store'.sessionId = store.sessionId
    /\ \/ store'.mainImageFile # store.mainImageFile
       \/ store'.mainImagePreviewUrl # store.mainImagePreviewUrl

\* C20: after setMainImageFile, with a file or with null, the Preview and the
\* Result are null and the Result's handle is released; with null no handle
\* of the main image is live afterwards.
C20_SetMainImageClears ==
    [][SetMainImageStep =>
          /\ store'.previewData = None
          /\ store'.resultUrl = Null
          /\ store'.resultBlob = None
          /\ store.resultUrl # Null => store.resultUrl \notin UrlIds(liveUrls')
          /\ store'.mainImageFile = Null =>
                /\ store'.mainImagePreviewUrl = Null
                /\ { u \in liveUrls' : u.of = "main" } = {}]_vars

\* The store's three operations that change the TileSet.
TileMutations == {"setSubImageFiles", "addSubImageFiles", "clearSubImages"}

\* The thumbnail handles the store held when the last call was made.
PriorThumbs == Range(called.st.subImagePreviews)

\* C21: right after setSubImageFiles, addSubImageFiles or clearSubImages the
\* palette is empty and the preview is null; after clearSubImages the TileSet
\* and the thumbnails are empty as well and every thumbnail handle held before
\* the call is released (and no other handle is).
C21_TileMutationsInvalidate ==
    /\ called.op \in TileMutations =>
          /\ store.palette = <<>>
          /\ store.previewData = None
    /\ called.op = "clearSubImages" =>
          /\ store.subImageFiles = <<>>
          /\ store.subImagePreviews = <<>>
          /\ liveUrls = { u \in called.live : u.id \notin PriorThumbs }
          /\ PriorThumbs \subseteq UrlIds(called.live)

\* clearSubImages was called on a store with tiles, thumbnails, a palette and
\* a preview.
C21_Witness ==
    /\ called.op = "clearSubImages"
    /\ Len(called.st.subImageFiles) = 2
    /\ Len(called.st.subImagePreviews) = 2
    /\ called.st.palette # <<>>
    /\ called.st.previewData # None
    /\ store.palette = <<>> /\ store.previewData = None

\* The main image and its handle are as they were when the last call was made.
MainImageKept ==
    /\ store.mainImageFile = called.st.mainImageFile
    /\ store.mainImagePreviewUrl = called.st.mainImagePreviewUrl
    /\ { u \in liveUrls : u.of = "main" } = { u \in called.live : u.of = "main" }

\* C22: right after addSubImageFiles the palette is empty, the preview is
\* null, the Result is null, and the main image and its handle are as before.
C22_AppendInvalidatesResult ==
    called.op = "addSubImageFiles" =>
        /\ store.palette = <<>>
        /\ store.previewData = None
        /\ store.resultUrl = Null
        /\ store.resultBlob = None
        /\ MainImageKept

\* The Settings of a store.
settingsOf(st) ==
    [ tileSize       |-> st.tileSize,
      style          |-> st.style,
      allowRepeats   |-> st.allowRepeats,
      overlayOpacity |-> st.overlayOpacity,
      shuffleSources |-> st.shuffleSources,
      a4Output       |-> st.a4Output ]

\* The Result and its handle are as they were when the last call was made.
ResultKept ==
    /\ store.resultUrl = called.st.resultUrl
    /\ store.resultBlob = called.st.resultBlob
    /\ { u \in liveUrls : u.of = "result" } = { u \in called.live : u.of = "result" }

\* C23: right after addSubImageFiles(newFiles) the TileSet is the one before
\* the call followed by newFiles (the tiles that were there keep their
\* indices), and the Result, the main image, the session identifier and the
\* settings are as before.
C23_AppendExtendsInOrder ==
    called.op = "addSubImageFiles" =>
        /\ store.subImageFiles = called.st.subImageFiles \o called.arg[1]
        /\ \A k \in 1..Len(called.st.subImageFiles) :
              store.subImageFiles[k] = called.st.subImageFiles[k]
        /\ ResultKept
        /\ store.mainImageFile = called.st.mainImageFile
        /\ store.mainImagePreviewUrl = called.st.mainImagePreviewUrl
        /\ store.sessionId = called.st.sessionId
        /\ settingsOf(store) = settingsOf(called.st)

\* A tile of another kind was appended to a TileSet of one tile, with a
\* Result in the store.
C23_Witness ==
    /\ called.op = "addSubImageFiles"
    /\ Len(called.st.subImageFiles) = 1
    /\ Len(called.arg[1]) = 1
    /\ called.arg[1][1] # called.st.subImageFiles[1]
    /\ called.st.resultUrl # Null
    /\ store.resultUrl # Null
    /\ Len(store.subImageFiles) = 2

\* The last call was setSubImageFiles with the list the store already held,
\* as it does after a first call with that list.
SameListAgain ==
    /\ called.op = "setSubImageFiles"
    /\ called.arg[1] = called.st.subImageFiles

\* C24: right after setSubImageFiles(list) the store holds min(200,
\* len(list)) thumbnail handles and an empty palette; when the store already
\* held that list, the call leaves the TileSet, the number of thumbnail handles
\* and the number of live handles as they were (the handles held before are
\* released).
C24_SetTileSetIdempotent ==
    /\ called.op = "setSubImageFiles" =>
          /\ Len(store.subImagePreviews) = Min(200, Len(called.arg[1]))
          /\ store.palette = <<>>
    /\ SameListAgain =>
          /\ store.subImageFiles = called.st.subImageFiles
          /\ Len(store.subImagePreviews) = Len(called.st.subImagePreviews)
          /\ Cardinality(liveUrls) = Cardinality(called.live)

\* setSubImageFiles was called with the 201 tiles the store already held: 200
\* thumbnails before and after.
C24_Witness ==
    /\ SameListAgain
    /\ Len(called.arg[1]) = 201
    /\ Len(called.st.subImagePreviews) = 200
    /\ Len(store.subImagePreviews) = 200
    /\ store.palette = <<>>

\* The thumbnail handles the store holds: live, and one per thumbnail.
ThumbsHeld ==
    /\ Range(store.subImagePreviews) = OwnedLive("thumb")
    /\ Cardinality(OwnedLive("thumb")) = Len(store.subImagePreviews)

\* The TileSet changed by the last call, setSubImageFiles or addSubImageFiles.
TileSetReplaced == called.op \in {"setSubImageFiles", "addSubImageFiles"}

\* C25: the store holds one thumbnail handle for each of the first 200 tiles
\* of the TileSet and none for the others; setSubImageFiles and
\* addSubImageFiles release the thumbnail handles held before (each of them
\* live then) and hold the newly created ones; and a pipeline run's batches
\* are all the tiles of the TileSet it was started on, those after the first
\* 200 included.
C25_ThumbnailsCoverPrefix ==
    /\ Len(store.subImagePreviews) = Min(200, Len(store.subImageFiles))
    /\ ThumbsHeld
    /\ ~deadRevoke
    /\ TileSetReplaced =>
          /\ PriorThumbs \subseteq UrlIds(called.live)
          /\ Cardinality(liveUrls) =
                Cardinality(called.live) - Len(called.st.subImagePreviews)
                    + Len(store.subImagePreviews)
    /\ \A t \in Tasks :
          RanPipeline(t) =>
              /\ Flatten(tasks[t].batches) = tasks[t].cl.subImageFiles
              /\ \A r \in net :
                    r.task = t => r.files = tasks[t].batches[tasks[t].i + 1]

\* A tile was added to a TileSet of 200 tiles and the pipeline was started:
\* 200 thumbnails, and the 201st tile is in the last batch.
C25_Witness ==
    \E t \in Tasks :
        /\ RanPipeline(t)
        /\ tasks[t].cl.subImageFiles = store.subImageFiles
        /\ called.op = "addSubImageFiles"
        /\ Len(called.st.subImageFiles) = 200
        /\ Len(store.subImageFiles) = 201
        /\ Len(store.subImagePreviews) = 200
        /\ Last(Last(tasks[t].batches)) = store.subImageFiles[201]

\* The step is a call of reset(): the session identifier changes.
ResetStep == store'.sessionId # store.sessionId

\* C26: after reset() no display handle is live, the main image, the TileSet,
\* the thumbnails, the palette, the preview and the Result are empty,
\* progress is 0, the three busy flags are false and the settings have their
\* initial values.
C26_ResetClearsEverything ==
    [][ResetStep =>
          /\ liveUrls' = {}
          /\ store'.mainImageFile = Null
          /\ store'.mainImagePreviewUrl = Null
          /\ store'.subImageFiles = <<>>
          /\ store'.subImagePreviews = <<>>
          /\ store'.palette = <<>>
          /\ store'.previewData = None
          /\ store'.resultUrl = Null
          /\ store'.resultBlob = None
          /\ store'.analyzeProgress = 0
          /\ ~store'.isAnalyzing
          /\ ~store'.isGenerating
          /\ ~store'.isPreviewLoading
          /\ settingsOf(store') = settingsOf(InitStore)]_vars

\* The session identifier of the invocation in slot t: the one its handler
\* was created with.
SessionOf(t) == tasks[t].cl.sessionId

\* C27: the session identifier changes only in a step that is a call of
\* reset() (no handler's step and no other store operation changes it); an
\* invocation keeps its session identifier from its start to its end, and
\* every request it sends, analyze, generate or preview, carries it.
C27_OnlyResetRotatesSession ==
    [][/\ ResetStep =>
             /\ store' = reset(W).st
             /\ store'.sessionId = makeSessionId(store.sessionId)
             /\ tasks' = tasks /\ net' = net
       /\ \A t \in Tasks :
             (tasks[t].pc # "idle" /\ tasks'[t].pc # "idle") =>
                 tasks'[t].cl.sessionId = SessionOf(t)
       /\ \A r \in net' : r.session_id = tasks'[r.task].cl.sessionId
       /\ \A r \in net' \ net :
             tasks[r.task].pc = "idle" => r.session_id = store.sessionId]_vars

\* reset() was called during a pipeline run of two batches: the generate
\* request that follows carries the session identifier of the run, not the
\* store's.
C27_Witness ==
    \E t \in Tasks, r \in net :
        /\ r.endpoint = "generate" /\ r.task = t
        /\ tasks[t].analyzed /\ tasks[t].sent = <<0, 1>>
        /\ r.session_id = 1
        /\ store.sessionId = 2

\* The step is a call of setTileSize(v) with v other than the tile size.
TileSizeStep == store'.tileSize # store.tileSize

\* C28: after setTileSize(v) with v other than the current tile size the
\* preview is null.
C28_TileSizeInvalidatesPreview ==
    [][TileSizeStep => store'.previewData = None]_vars

\* The field each setter replaces.
FieldOf(op) ==
    CASE op = "setPalette"         -> "palette"
      [] op = "setAnalyzeProgress" -> "analyzeProgress"
      [] op = "setTileSize"        -> "tileSize"
      [] op = "setStyle"           -> "style"
      [] op = "setAllowRepeats"    -> "allowRepeats"
      [] op = "setOverlayOpacity"  -> "overlayOpacity"
      [] op = "setShuffleSources"  -> "shuffleSources"
      [] op = "setA4Output"        -> "a4Output"

Setters ==
    { "setPalette", "setAnalyzeProgress", "setTileSize", "setStyle",
      "setAllowRepeats", "setOverlayOpacity", "setShuffleSources",
      "setA4Output" }

\* C29: right after a call of setPalette, setAnalyzeProgress or a setter of
\* the Settings, the store is the one before the call with the setter's field
\* replaced by the argument, and the live display handles are those before the
\* call: none created, none released.
C29_SettersReplaceOwnField ==
    called.op \in Setters =>
        /\ store = [called.st EXCEPT ![FieldOf(called.op)] = called.arg[1]]
        /\ liveUrls = called.live
        /\ ~deadRevoke

\* setPalette was called with the palette of two tiles on a store with a main
\* image, two tiles, their thumbnails and progress 100.
C29_Witness ==
    /\ called.op = "setPalette"
    /\ Len(called.arg[1]) = 2
    /\ called.st.palette = <<>>
    /\ called.st.analyzeProgress = 100
    /\ called.st.tileSize = 60
    /\ store.palette = called.arg[1]
    /\ Cardinality(liveUrls) = 3

\* The step writes a Result to the store: resultUrl gets a new value that is
\* not null.
ResultSetStep ==
    /\ store'.resultUrl # Null
    /\ store'.resultUrl # store.resultUrl

\* The handle of the Result the store holds is live, and the Result has its
\* binary.
ResultHeld ==
    store.resultUrl # Null =>
        /\ [id |-> store.resultUrl, of |-> "result"] \in liveUrls
        /\ store.resultBlob # None

\* C30: a Result is written to the store only in the step in which the
\* generate request of an invocation of generate gets its success response:
\* the Result is the mosaic of that request with a new live handle, and when
\* the store held a Result, that one's handle, live until then, is released in
\* the step, and no handle is ever released when it is not live.
C30_ResultOnlyFromGenerate ==
    [][/\ ResultSetStep =>
             \E r \in net \ net' :
                 /\ r.endpoint = "generate"
                 /\ tasks[r.task].pc = "generate"
                 /\ tasks[r.task].caller = "handleGenerate"
                 /\ tasks'[r.task] = IdleTask
                 /\ ResultReplacedBy(r)
                 /\ liveUrls' =
                       { u \in liveUrls : u.id # store.resultUrl }
                           \cup {[id |-> store'.resultUrl, of |-> "result"]}
       /\ ResultHeld
       /\ ~deadRevoke /\ ~deadRevoke']_vars

\* The generate request of a second invocation is in flight (its palette was
\* ready, so it ran no pipeline) while the store holds the Result of an
\* earlier invocation, its handle live.
C30_Witness ==
    \E t \in Tasks, r \in net :
        /\ r.endpoint = "generate" /\ r.task = t
        /\ tasks[t].pc = "generate" /\ ~tasks[t].analyzed
        /\ store.resultUrl # Null
        /\ [id |-> store.resultUrl, of |-> "result"] \in liveUrls
        /\ store.resultBlob = Some(serviceMosaic(r))

\* C31 as stated: the error shown after a non-success response of any of the
\* three endpoints is the response's body text, unmodified.  (A generate
\* request has failed when the invocation ends with the Result as it was, a
\* preview request when it ends with a Preview that is not the response's.)
C31_Original ==
    [][\A t \in Tasks :
          LET GenerateFailStep ==
                  /\ tasks[t].pc = "generate"
                  /\ tasks'[t] = IdleTask
                  /\ store'.resultUrl = store.resultUrl
              PreviewFailStep ==
                  /\ tasks[t].pc = "preview"
                  /\ tasks'[t] = IdleTask
                  /\ \A r \in net :
                        r.task = t => store'.previewData # Some(servicePreview(r))
          IN  (FailStep(t) \/ GenerateFailStep \/ PreviewFailStep) =>
                  \E body \in ErrBodies : error' = <<body>>]_vars

\* C31, amended: the error shown after a non-success response of the generate
\* or the preview endpoint is the response's body text, unmodified; after a
\* non-success response of the analyze endpoint it is "Analyze failed: "
\* followed by the body text, unmodified.  The error is cleared at the start
\* of every valid invocation of preview or generate, and changes in no other
\* step than the start and the end of an invocation.
C31_ErrorSurfaced ==
    [][LET GenerateFailStep(t) ==
               /\ tasks[t].pc = "generate"
               /\ tasks'[t] = IdleTask
               /\ store'.resultUrl = store.resultUrl
           PreviewFailStep(t) ==
               /\ tasks[t].pc = "preview"
               /\ tasks'[t] = IdleTask
               /\ \A r \in net :
                     r.task = t => store'.previewData # Some(servicePreview(r))
           StartStep(t) == tasks[t].pc = "idle" /\ tasks'[t].pc # "idle"
           EndStep(t) == tasks[t].pc # "idle" /\ tasks'[t].pc = "idle"
       IN  /\ \A t \in Tasks :
                 /\ FailStep(t) =>
                       \E body \in ErrBodies :
                           error' = <<"Analyze failed: ", body>>
                 /\ (GenerateFailStep(t) \/ PreviewFailStep(t)) =>
                       \E body \in ErrBodies : error' = <<body>>
                 /\ StartStep(t) => error' = NoError
           /\ error' # error => \E t \in Tasks : StartStep(t) \/ EndStep(t)]_vars

\* The analyze request of a second invocation of generate has failed: its
\* error is shown with the prefix, and the Result of the first invocation is
\* still in the store.
C31_Witness ==
    /\ \E body \in ErrBodies : error = <<"Analyze failed: ", body>>
    /\ store.resultUrl # Null
    /\ store.palette = <<>>
    /\ Len(store.subImageFiles) = 2
    /\ \A t \in Tasks : tasks[t].pc = "idle"

\* C32: in every state resultUrl is null if and only if resultBlob is null.
C32_ResultHalvesConsistent ==
    (store.resultUrl = Null) <=> (store.resultBlob = None)

\* C33: a Result in the store is the mosaic of a generate request that carried
\* the main image the store has, and a Preview in the store is the preview of
\* a preview request that carried it.
C33_ArtifactsOfCurrentMainImage ==
    /\ store.resultUrl # Null =>
          store.resultBlob =
              Some(serviceMosaic([main_image |-> store.mainImageFile]))
    /\ store.previewData # None =>
          store.previewData =
              Some(servicePreview([main_image |-> store.mainImageFile]))

\* C34: while no pipeline run is in progress, the palette is empty or has one
\* entry for each tile of the TileSet, entry i with index i.
C34_PaletteOfCurrentTiles ==
    (\A t \in Tasks : tasks[t].pc # "analyze") =>
        \/ store.palette = <<>>
        \/ /\ Len(store.palette) = Len(store.subImageFiles)
           /\ \A k \in 1..Len(store.palette) : store.palette[k].index = k - 1

\* C35: the step in which a request completes that was issued under a session
\* identifier other than the store's (reset() was called while it was in
\* flight) leaves the palette, the preview, the Result and the progress as
\* they are, and raises no busy flag.
C35_StaleResponseIgnored ==
    [][(\E r \in net \ net' : r.session_id # store.sessionId) =>
          /\ store'.palette = store.palette
          /\ store'.previewData = store.previewData
          /\ store'.resultUrl = store.resultUrl
          /\ store'.resultBlob = store.resultBlob
          /\ store'.analyzeProgress = store.analyzeProgress
          /\ store'.isAnalyzing => store.isAnalyzing
          /\ store'.isGenerating => store.isGenerating
          /\ store'.isPreviewLoading => store.isPreviewLoading]_vars

\* C36: while a request is in flight the busy flag of its endpoint is true,
\* and once every batch of a pipeline run has succeeded (the invocation is at
\* its generate request and no other run is in progress) isAnalyzing is false.
C36_BusyFlagsReflectInFlight ==
    /\ \A r \in net :
          /\ r.endpoint = "analyze" => store.isAnalyzing
          /\ r.endpoint = "generate" => store.isGenerating
          /\ r.endpoint = "preview" => store.isPreviewLoading
    /\ ((\E t \in Tasks : tasks[t].analyzed /\ tasks[t].pc = "generate")
            /\ (\A t \in Tasks : tasks[t].pc # "analyze"))
          => ~store.isAnalyzing

\* C37: in a pipeline run no batch is empty, the number of batches is between
\* 1 and the length of the TileSet, tiles of size 0 included, and no more
\* analyze requests are sent than the TileSet has tiles; with every request
\* answered, the run ends.
C37_RunBoundedByTileSet ==
    /\ [](\A t \in Tasks :
            RanPipeline(t) =>
                LET files   == tasks[t].cl.subImageFiles
                    batches == tasks[t].batches
                IN  /\ \A k \in 1..Len(batches) : batches[k] # <<>>
                    /\ 1 <= Len(batches)
                    /\ Len(batches) <= Len(files)
                    /\ Len(tasks[t].sent) <= Len(batches)
                    /\ Len(tasks[t].sent) <= Len(files))
    /\ \A t \in Tasks : (tasks[t].pc = "analyze") ~> (tasks[t].pc # "analyze")

\* A run on three tiles, the first of size 0, has had all its requests
\* answered with success: two batches, two requests.
C37_Witness ==
    \E t \in Tasks :
        /\ tasks[t].analyzed /\ tasks[t].pc = "generate"
        /\ Len(tasks[t].cl.subImageFiles) = 3
        /\ tasks[t].cl.subImageFiles[1].size = 0
        /\ Len(tasks[t].batches) = 2
        /\ tasks[t].sent = <<0, 1>>

\* C38: when a second pipeline run of a session succeeds, on a TileSet that
\* further tiles were appended to after the first run, the palette has one
\* entry for each tile of the TileSet, entry i with index i, and the service
\* holds as many tiles for the session as the TileSet has.  (The run is a
\* second one on an extended TileSet when the step answers its only batch
\* with success and the service already holds tiles of the session, fewer
\* than the TileSet has.)
C38_RerunKeepsAlignment ==
    [][\A t \in Tasks :
          LET files == tasks[t].cl.subImageFiles
              RerunCompletes ==
                  /\ tasks[t].pc = "analyze"
                  /\ Len(tasks[t].batches) = 1
                  /\ tasks'[t].analyzed
                  /\ files = store.subImageFiles
                  /\ SessionOf(t) = store.sessionId
                  /\ srv[SessionOf(t)] > 0
                  /\ srv[SessionOf(t)] < Len(files)
          IN  RerunCompletes =>
                  /\ Len(store'.palette) = Len(store'.subImageFiles)
                  /\ \A k \in 1..Len(store'.palette) :
                        store'.palette[k].index = k - 1
                  /\ srv'[SessionOf(t)] = Len(store'.subImageFiles)]_vars

====
